---- MODULE Spec2Model ----
(***************************************************************************)
(* Weather-Radar (KMOB): the streaming coordinator of app.py               *)
(* (handle_start_streaming, handle_stop_streaming, handle_update_filters,  *)
(* stream_radar_data), the volume locator and get_radar_data it calls, and *)
(* the one-shot /api/radar_data query; the overlay pipeline of             *)
(* create_radar_overlay (sample filter, colour buckets, band passes,       *)
(* clustering, contours) applied to drawn inputs; and frame_generator of   *)
(* radarkmob.py.                                                           *)
(*                                                                         *)
(* Python threads are interleaved at every read or write of a module-level *)
(* global, every call that does network I/O and every socketio.emit.       *)
(***************************************************************************)
EXTENDS Integers, Sequences, FiniteSets, TLC

\* ------------------------------------------------------------------ bounds
\* start_streaming requests served (each spawns one thread)
MaxThreads == 2
\* loop iterations the polling threads may begin, all together
MaxIter == 2
\* volumes uploaded to today's prefix of the bucket
MaxVolumes == 2
\* rays and gates of one decoded sweep
GridRays == 2
GridGates == 3

\* ------------------------------------------------------------- Python values
\* Python's None
None == [none |-> TRUE]

Threads == 1..MaxThreads

\* a JSON number of a socket payload; tenths of a degree for an elevation
Num(x) == [num |-> x]

\* what a client may send with start_streaming / update_filters: data.get
\* returns the payload's value unchanged, so {"elevation": null} gives None
StreamParams ==
    { [elevation |-> Num(5),  threshold |-> 7,  density |-> 2],
      [elevation |-> Num(15), threshold |-> 20, density |-> 1],
      [elevation |-> None,    threshold |-> 7,  density |-> 2] }

\* the tilt angles of a decoded volume (radar.fixed_angle['data']), tenths
FixedAngles == <<5, 15>>

\* ---------------------------------------------------------------- variables
VARIABLES
    streaming_active,    \* app.py:69
    current_radar_data,  \* app.py:70  None or [radar, timestamp]
    last_volume_key,     \* app.py:71  None or a key
    bucket,              \* the objects listed under today's prefix
    nthreads,            \* threads spawned so far by handle_start_streaming
    pc,                  \* position of each stream_radar_data thread
    args,                \* (elevation, threshold, density) each thread got
    key,                 \* local `key` of each thread
    fetched,             \* local (radar, timestamp) of each thread
    iter,                \* the number of each thread's current iteration
    stopped,             \* which stop_streaming / start_streaming each thread saw
    emitted,             \* everything broadcast with socketio.emit, in order
    reply,               \* the answer of a request handler, until delivered
    calc,                \* a function of the pipeline applied to an input
    gen_pc,              \* radarkmob.py: position of frame_generator
    gen_elev,            \* radarkmob.py:125  request.args' elev
    last_key,            \* radarkmob.py:80  local of frame_generator
    last_frame,          \* radarkmob.py:81  local of frame_generator
    gen_key,             \* radarkmob.py:85  local `key` of frame_generator
    yielded              \* the frames frame_generator has yielded, in order

mjpeg == <<gen_pc, gen_elev, last_key, last_frame, gen_key, yielded>>

vars == <<streaming_active, current_radar_data, last_volume_key, bucket,
          nthreads, pc, args, key, fetched, iter, stopped, emitted, reply,
          calc, gen_pc, gen_elev, last_key, last_frame, gen_key, yielded>>

globals == <<streaming_active, current_radar_data, last_volume_key>>
locals == <<pc, args, key, fetched, iter>>

\* ------------------------------------------------------------ volume locator
\* list_today_volumes: the listed objects whose key ends with _V06
list_today_volumes(b) == { o \in b : o.Key.suffix = "_V06" }

\* latest_volume_key as it would be if it compared the acquisition times
\* embedded in the keys
latest_volume_key_by_name(b) ==
    LET vols == list_today_volumes(b)
    IN  IF vols = {} THEN None
        ELSE (CHOOSE o \in vols : \A p \in vols : p.Key.ts <= o.Key.ts).Key

\* latest_volume_key: None for an empty listing, else the key of the object
\* with the greatest LastModified; max() returns the first of several
\* greatest ones, and the listing is in the order of the keys
latest_volume_key(b) ==
    LET vols == list_today_volumes(b)
    IN  IF vols = {} THEN None
        ELSE (CHOOSE o \in vols :
                \A p \in vols :
                   \/ p.LastModified < o.LastModified
                   \/ p.LastModified = o.LastModified /\ o.Key.ts <= p.Key.ts
             ).Key

\* ------------------------------------------------------------ decoded volume
\* What pyart.io.read returns for the archive stored under key k: the tilt
\* angles, and for every sweep the reflectivity field (dBZ and validity of
\* each [ray][gate] cell, rays and gates numbered from 0) with the numbers
\* of azimuths and of range gates the coordinate grids are built from.
\* The echoes are synthetic; they differ from volume to volume.
DbzSamples == <<5, 12, 40, 22, 8>>
Decode(k) ==
    [key |-> k,
     angles |-> FixedAngles,
     nrays |-> GridRays,
     ngates |-> GridGates,
     field |-> [s \in 1..Len(FixedAngles) |->
                 [i \in 0..(GridRays - 1) |->
                    [j \in 0..(GridGates - 1) |->
                       [dbz |-> DbzSamples[((i * GridGates + j + k.ts + s)
                                              % Len(DbzSamples)) + 1],
                        valid |-> (i + j + s) % 3 # 0]]]]]

\* a Python str, and a datetime holding an acquisition time
Str(s) == [str |-> s]
Datetime(t) == [utc |-> t]

\* parse_timestamp_from_key: the acquisition time embedded in the key
parse_timestamp_from_key(k) == Datetime(k.ts)

\* ------------------------------------------------------------- get_radar_data
\* The outcomes of one call: the listing or the download may raise
\* ("transport"), the decode may raise ("decode"); every exception is caught
\* inside and turned into (None, message).
IoOutcomes == {"ok", "transport", "decode"}

get_radar_data(b, outcome) ==
    LET k == latest_volume_key(b)
    IN  IF outcome = "transport"
        THEN [radar |-> None, timestamp |-> Str("transport")]
        ELSE IF k = None
        THEN [radar |-> None, timestamp |-> Str("No radar data available")]
        ELSE IF outcome = "decode"
        THEN [radar |-> None, timestamp |-> Str("decode")]
        ELSE [radar |-> Decode(k), timestamp |-> parse_timestamp_from_key(k)]

\* ------------------------------------------------------------ sweep selection
Abs(x) == IF x < 0 THEN -x ELSE x
\* angles - elevation raises TypeError when elevation is not a number
SweepRaises(elevation) == elevation = None
\* int(np.argmin(np.abs(angles - elevation))): the first index of a minimum
SweepIdx(angles, elevation) ==
    CHOOSE i \in 1..Len(angles) :
        /\ \A j \in 1..Len(angles) :
              Abs(angles[i] - elevation.num) <= Abs(angles[j] - elevation.num)
        /\ \A j \in 1..(i - 1) :
              Abs(angles[j] - elevation.num) > Abs(angles[i] - elevation.num)

\* ------------------------------------------------------ get_reflectivity_color
\* get_reflectivity_color as it would be if a value on a boundary still
\* belonged to the bucket below it
get_reflectivity_color_inclusive(value) ==
    IF value <= -10 THEN "#000000"
    ELSE IF value <= 0 THEN "#9C9C9C"
    ELSE IF value <= 5 THEN "#00ECEC"
    ELSE IF value <= 10 THEN "#019FF4"
    ELSE IF value <= 15 THEN "#0300F4"
    ELSE IF value <= 20 THEN "#02FD02"
    ELSE IF value <= 25 THEN "#01C501"
    ELSE IF value <= 30 THEN "#008E00"
    ELSE IF value <= 35 THEN "#FDF802"
    ELSE IF value <= 40 THEN "#E5BC00"
    ELSE IF value <= 45 THEN "#FD9500"
    ELSE IF value <= 50 THEN "#FD0000"
    ELSE IF value <= 55 THEN "#D40000"
    ELSE IF value <= 60 THEN "#BC0000"
    ELSE IF value <= 65 THEN "#FD00FD"
    ELSE "#9854C6"

\* lines 389-422: the chain of `value < bound` tests, in dBZ
get_reflectivity_color(value) ==
    IF value < -10 THEN "#000000"
    ELSE IF value < 0 THEN "#9C9C9C"
    ELSE IF value < 5 THEN "#00ECEC"
    ELSE IF value < 10 THEN "#019FF4"
    ELSE IF value < 15 THEN "#0300F4"
    ELSE IF value < 20 THEN "#02FD02"
    ELSE IF value < 25 THEN "#01C501"
    ELSE IF value < 30 THEN "#008E00"
    ELSE IF value < 35 THEN "#FDF802"
    ELSE IF value < 40 THEN "#E5BC00"
    ELSE IF value < 45 THEN "#FD9500"
    ELSE IF value < 50 THEN "#FD0000"
    ELSE IF value < 55 THEN "#D40000"
    ELSE IF value < 60 THEN "#BC0000"
    ELSE IF value < 65 THEN "#FD00FD"
    ELSE "#9854C6"

\* ------------------------------------------------------- create_radar_overlay
Min(a, b) == IF a < b THEN a ELSE b
Max(a, b) == IF a > b THEN a ELSE b

\* list(range(0, n, step)) for step # 0; range() raises ValueError for step 0
Range(n, step) ==
    IF step > 0
    THEN [x \in 1..((n + step - 1) \div step) |-> (x - 1) * step]
    ELSE <<>>

\* lines 152-166: lats[i, j] - RADAR_LAT and lons[i, j] - RADAR_LON of the
\* gate j of the ray i, in units of 0.0025 degree (one degree is 400 units).
\* Ray i points north, east, south, west, north, ... and the gates are 0.01
\* degree apart along the ray.
GateLat(i, j) ==
    IF i % 4 = 0 THEN 4 * (j + 1) ELSE IF i % 4 = 2 THEN -4 * (j + 1) ELSE 0
GateLon(i, j) ==
    IF i % 4 = 1 THEN 4 * (j + 1) ELSE IF i % 4 = 3 THEN -4 * (j + 1) ELSE 0

\* lines 180-208 as they would be if the loops ran over the whole
\* reflectivity array, whatever the shape of the coordinate grids
OverlayPoints_unclipped(radar, sweep_idx, min_dbz_threshold, sampling_step) ==
    LET ref_data == radar.field[sweep_idx]
        max_i == Cardinality(DOMAIN ref_data)
        max_j == Cardinality(DOMAIN ref_data[0])
        I == Range(max_i, sampling_step)
        J == Range(max_j, sampling_step)
        cells == [x \in 1..(Len(I) * Len(J)) |->
                    [i |-> I[((x - 1) \div Len(J)) + 1],
                     j |-> J[((x - 1) % Len(J)) + 1]]]
        Qualifies(c) == /\ ref_data[c.i][c.j].valid
                        /\ ref_data[c.i][c.j].dbz >= min_dbz_threshold
        kept == SelectSeq(cells, Qualifies)
    IN  [x \in 1..Len(kept) |->
           [ray |-> kept[x].i, gate |-> kept[x].j,
            lat |-> GateLat(kept[x].i, kept[x].j),
            lon |-> GateLon(kept[x].i, kept[x].j),
            value |-> ref_data[kept[x].i][kept[x].j].dbz,
            color |-> get_reflectivity_color(
                          ref_data[kept[x].i][kept[x].j].dbz)]]

\* lines 180-208: the samples of the sweep, ray by ray and gate by gate.
\* radar.nrays and radar.ngates are the numbers of azimuths and of range
\* gates, the shape of lats and lons. ray and gate are not part of a sample:
\* they record the cell it was read from.
OverlayPoints(radar, sweep_idx, min_dbz_threshold, sampling_step) ==
    LET ref_data == radar.field[sweep_idx]
        max_i == Min(Cardinality(DOMAIN ref_data), radar.nrays)
        max_j == Min(Cardinality(DOMAIN ref_data[0]), radar.ngates)
        I == Range(max_i, sampling_step)
        J == Range(max_j, sampling_step)
        cells == [x \in 1..(Len(I) * Len(J)) |->
                    [i |-> I[((x - 1) \div Len(J)) + 1],
                     j |-> J[((x - 1) % Len(J)) + 1]]]
        Qualifies(c) == /\ ref_data[c.i][c.j].valid
                        /\ ref_data[c.i][c.j].dbz >= min_dbz_threshold
        kept == SelectSeq(cells, Qualifies)
    IN  [x \in 1..Len(kept) |->
           [ray |-> kept[x].i, gate |-> kept[x].j,
            lat |-> GateLat(kept[x].i, kept[x].j),
            lon |-> GateLon(kept[x].i, kept[x].j),
            value |-> ref_data[kept[x].i][kept[x].j].dbz,
            color |-> get_reflectivity_color(
                          ref_data[kept[x].i][kept[x].j].dbz)]]

\* lines 169-176: the six bands, numbered from 0 as enumerate() numbers them
dbz_levels ==
    LET t == << [min |-> 7,  max |-> 15,  color |-> "#02FD02", name |-> "Light"],
                [min |-> 15, max |-> 25,  color |-> "#01C501", name |-> "Moderate"],
                [min |-> 25, max |-> 35,  color |-> "#FDF802", name |-> "Heavy"],
                [min |-> 35, max |-> 45,  color |-> "#FD9500", name |-> "Very Heavy"],
                [min |-> 45, max |-> 55,  color |-> "#FD0000", name |-> "Intense"],
                [min |-> 55, max |-> 100, color |-> "#FD00FD", name |-> "Extreme"] >>
    IN  [idx \in 0..5 |-> t[idx + 1]]

\* line 215 as it would be if a band took only the samples inside its range
level_points_exclusive(all_points, level) ==
    LET InBand(p) == p.value >= level.min /\ p.value < level.max
    IN  SelectSeq(all_points, InBand)

\* line 215: the candidates of a band
level_points(all_points, level) ==
    LET Reaches(p) == p.value >= level.min
    IN  SelectSeq(all_points, Reaches)

\* lines 240-254: base eps of a band in units of 0.0025 degree, and
\* base_min_samples for n candidates
base_eps(level) ==
    IF level.min < 15 THEN 10 ELSE IF level.min < 35 THEN 8 ELSE 6
base_min_samples(level, n) ==
    IF level.min < 15 THEN Max(2, Min(5, n \div 30))
    ELSE IF level.min < 35 THEN Max(2, Min(4, n \div 25))
    ELSE Max(2, Min(3, n \div 15))

\* lines 228-233 and 259-265: twice the eps_factor of a sample, from the
\* square of its distance to the radar (1 degree is 400 units)
eps_factor(p) ==
    LET d2 == p.lat * p.lat + p.lon * p.lon
    IN  IF d2 < 400 * 400 THEN 2 ELSE IF d2 < 800 * 800 THEN 3 ELSE 4

\* lines 258-267: base_eps * eps_factor for every candidate
adaptive_eps(level, pts) ==
    [x \in 1..Len(pts) |-> (base_eps(level) * eps_factor(pts[x])) \div 2]

\* line 270 as it would be if the pass used the smallest adaptive eps
eps_smallest(level, pts) ==
    LET a == adaptive_eps(level, pts)
    IN  IF Len(a) = 0 THEN base_eps(level)
        ELSE CHOOSE e \in {a[x] : x \in 1..Len(a)} :
                \A x \in 1..Len(a) : e <= a[x]

\* line 270: eps = max(adaptive_eps) if adaptive_eps else base_eps
eps(level, pts) ==
    LET a == adaptive_eps(level, pts)
    IN  IF Len(a) = 0 THEN base_eps(level)
        ELSE CHOOSE e \in {a[x] : x \in 1..Len(a)} :
                \A x \in 1..Len(a) : a[x] <= e

\* line 271
min_samples(level, n) == Max(2, Min(base_min_samples(level, n), n \div 4))

\* ---------------------------------------------------------------------- DBSCAN
\* sklearn's DBSCAN(eps, min_samples).fit(coords).labels_ for the samples
\* pts: a sample is a core sample when at least min_samples samples (itself
\* included) lie within eps of it; clusters are grown from the unlabelled
\* core samples in index order and numbered from 0; a sample that is no core
\* sample gets the label of the first cluster that reaches it, or -1.
Within(pts, e, x, y) ==
    (pts[x].lat - pts[y].lat) * (pts[x].lat - pts[y].lat)
      + (pts[x].lon - pts[y].lon) * (pts[x].lon - pts[y].lon) <= e * e

CoreSamples(pts, e, m) ==
    { x \in 1..Len(pts) :
        Cardinality({ y \in 1..Len(pts) : Within(pts, e, x, y) }) >= m }

RECURSIVE Grow(_, _, _, _)
Grow(pts, e, core, S) ==
    LET T == S \cup { y \in core : \E x \in S : Within(pts, e, x, y) }
    IN  IF T = S THEN S ELSE Grow(pts, e, core, T)

RECURSIVE CoreClusters(_, _, _, _)
CoreClusters(pts, e, core, left) ==
    IF left = {} THEN <<>>
    ELSE LET first == CHOOSE x \in left : \A y \in left : x <= y
             grown == Grow(pts, e, core, {first})
         IN  <<grown>> \o CoreClusters(pts, e, core, left \ grown)

DBSCAN(pts, e, m) ==
    LET core == CoreSamples(pts, e, m)
        cl == CoreClusters(pts, e, core, core)
        Reached(x) == { k \in 1..Len(cl) :
                          \E c \in cl[k] : Within(pts, e, x, c) }
    IN  [x \in 1..Len(pts) |->
           IF Reached(x) = {} THEN -1
           ELSE (CHOOSE k \in Reached(x) : \A l \in Reached(x) : k <= l) - 1]

\* ------------------------------------------------------------ one band's pass
\* lines 213-276 as they would be if a band of two candidates were clustered
LevelPass_pairs(all_points, idx) ==
    LET level == dbz_levels[idx]
        pts == level_points(all_points, level)
    IN  IF Len(pts) < 2
        THEN [idx |-> idx, level_points |-> pts, skipped |-> TRUE]
        ELSE [idx |-> idx, level_points |-> pts, skipped |-> FALSE,
              eps |-> eps(level, pts),
              min_samples |-> min_samples(level, Len(pts)),
              labels |-> DBSCAN(pts, eps(level, pts),
                                min_samples(level, Len(pts)))]

\* lines 213-276: what one pass of the band loop computes for band idx
\* (actual_level_idx) before it walks the clusters
LevelPass(all_points, idx) ==
    LET level == dbz_levels[idx]
        pts == level_points(all_points, level)
    IN  IF Len(pts) < 3
        THEN [idx |-> idx, level_points |-> pts, skipped |-> TRUE]
        ELSE [idx |-> idx, level_points |-> pts, skipped |-> FALSE,
              eps |-> eps(level, pts),
              min_samples |-> min_samples(level, Len(pts)),
              labels |-> DBSCAN(pts, eps(level, pts),
                                min_samples(level, Len(pts)))]

\* What the geometry engine does with the clusters of one overlay: shapely
\* raises for the clusters named in raises, returns a MultiPolygon of two
\* parts for those named in multi and a Polygon for every other one. A
\* cluster is named <<actual_level_idx, label>>.
NoGeometryFault == [raises |-> {}, multi |-> {}]

\* lines 283-377 as they would be if the try enclosed the loop over the
\* clusters: the first failure ends the band's pass
ClusterContours_abandons(pass, label, geom) ==
    IF \E l \in 0..label : <<pass.idx, l>> \in geom.raises
    THEN <<>>
    ELSE LET level == dbz_levels[pass.idx]
             members == { x \in 1..Len(pass.labels) : pass.labels[x] = label }
             Contour(part) ==
                 [polygon |-> { <<pass.level_points[x].lat,
                                  pass.level_points[x].lon>> : x \in members },
                  color |-> level.color, name |-> level.name,
                  min_dbz |-> level.min, max_dbz |-> level.max,
                  cluster_id |-> [level |-> pass.idx, cluster |-> label,
                                  part |-> part],
                  point_count |-> Cardinality(members)]
         IN  IF Cardinality(members) < 2 THEN <<>>
             ELSE IF <<pass.idx, label>> \in geom.multi
             THEN <<Contour(Num(0)), Contour(Num(1))>>
             ELSE <<Contour(None)>>

\* lines 283-377: the contours one cluster adds. The polygon is named by the
\* positions of the samples it was buffered from; every part of a
\* MultiPolygon is taken to be larger than 0.000001.
ClusterContours(pass, label, geom) ==
    LET level == dbz_levels[pass.idx]
        members == { x \in 1..Len(pass.labels) : pass.labels[x] = label }
        Contour(part) ==
            [polygon |-> { <<pass.level_points[x].lat,
                             pass.level_points[x].lon>> : x \in members },
             color |-> level.color, name |-> level.name,
             min_dbz |-> level.min, max_dbz |-> level.max,
             cluster_id |-> [level |-> pass.idx, cluster |-> label,
                             part |-> part],
             point_count |-> Cardinality(members)]
    IN  IF Cardinality(members) < 2 THEN <<>>
        ELSE IF <<pass.idx, label>> \in geom.raises THEN <<>>
        ELSE IF <<pass.idx, label>> \in geom.multi
        THEN <<Contour(Num(0)), Contour(Num(1))>>
        ELSE <<Contour(None)>>

\* lines 283-377: the clusters of one pass, by increasing label
RECURSIVE LevelContours(_, _, _)
LevelContours(pass, label, geom) ==
    IF pass.skipped \/ \A x \in 1..Len(pass.labels) : pass.labels[x] < label
    THEN <<>>
    ELSE ClusterContours(pass, label, geom)
           \o LevelContours(pass, label + 1, geom)

\* lines 213-377: the bands from the highest to the lowest
RECURSIVE ContourClusters(_, _, _)
ContourClusters(all_points, idx, geom) ==
    IF idx < 0 THEN <<>>
    ELSE LevelContours(LevelPass(all_points, idx), 0, geom)
           \o ContourClusters(all_points, idx - 1, geom)

\* lines 145-387: any exception outside the cluster loop, such as range()'s
\* ValueError for a step of 0, is caught at line 385 and gives the empty
\* overlay
create_radar_overlay(radar, sweep_idx, min_dbz_threshold, sampling_step, geom) ==
    IF sampling_step = 0
    THEN [points |-> <<>>, contours |-> <<>>]
    ELSE LET all_points == OverlayPoints(radar, sweep_idx, min_dbz_threshold,
                                         sampling_step)
         IN  [points |-> all_points,
              contours |-> ContourClusters(all_points, 5, geom)]

\* ---------------------------------------------------------------------- Init
Init ==
    /\ streaming_active = FALSE
    /\ current_radar_data = None
    /\ last_volume_key = None
    /\ bucket = { [Key |-> [ts |-> 0, suffix |-> "_V06_MDM"], LastModified |-> 0] }
    /\ nthreads = 0
    /\ pc = [t \in Threads |-> "unborn"]
    /\ args = [t \in Threads |-> None]
    /\ key = [t \in Threads |-> None]
    /\ fetched = [t \in Threads |-> None]
    /\ iter = [t \in Threads |-> 0]
    /\ stopped = [t \in Threads |-> [stop |-> "no", restart |-> FALSE]]
    /\ emitted = <<>>
    /\ reply = None
    /\ calc = None
    /\ gen_pc = "idle"
    /\ gen_elev = None
    /\ last_key = None
    /\ last_frame = None
    /\ gen_key = None
    /\ yielded = <<>>

\* a thread that has been started and has not returned
Running(t) == pc[t] \notin {"unborn", "done"}

\* a thread between its locator check and the end of the iteration's work
InIteration(t) ==
    pc[t] \in {"locate", "check", "set", "fetch", "store", "overlay", "sweep",
               "except"}

\* --------------------------------------------------------------- environment
\* NOAA uploads one more volume under today's prefix; acquisition time and
\* LastModified both grow with the upload order
Publish ==
    /\ Cardinality(list_today_volumes(bucket)) < MaxVolumes
    /\ LET n == Cardinality(list_today_volumes(bucket)) + 1
       IN  bucket' = bucket \cup
              { [Key |-> [ts |-> n, suffix |-> "_V06"], LastModified |-> n] }
    /\ UNCHANGED <<globals, nthreads, locals, stopped, emitted, reply,
                   calc, mjpeg>>

\* ------------------------------------------------------------ broadcast log
\* One socketio.emit of thread t. thread/iter/starts/signal are not sent:
\* they record who emitted, in which iteration, how many start_streaming
\* requests had been served by then and which stop/start the thread had
\* seen.
Broadcast(t, event, payload) ==
    emitted' = Append(emitted,
        [event |-> event, payload |-> payload, thread |-> t, iter |-> iter[t],
         starts |-> nthreads, signal |-> stopped[t]])

\* the payload of a radar_data message (app.py:722-734 and 682-694)
\* `volume` is not sent: it records which decoded volume the overlay is of.
\* The geometry engine is taken not to fail here; what a failure does to an
\* overlay is explored by ApplyOverlay and ApplyContours.
RadarDataPayload(rt, p) ==
    LET sweep_idx == SweepIdx(rt.radar.angles, p.elevation)
        overlay == create_radar_overlay(rt.radar, sweep_idx, p.threshold,
                                        p.density, NoGeometryFault)
    IN  [success |-> TRUE,
         timestamp |-> rt.timestamp,
         volume |-> rt.radar.key,
         elevation |-> rt.radar.angles[sweep_idx],
         overlay_data |-> overlay.points,
         contour_zones |-> overlay.contours,
         filter_info |-> [min_dbz |-> p.threshold, density |-> p.density,
                          point_count |-> Len(overlay.points),
                          contour_count |-> Len(overlay.contours)]]

\* ------------------------------------------------------------ socket handlers
\* handle_start_streaming: sets the flag and starts one more thread, whatever
\* the flag was and whatever threads exist. stopped.restart records, for a
\* running thread stopped in mid-iteration, that a start followed that stop.
handle_start_streaming(data) ==
    /\ nthreads < MaxThreads
    /\ streaming_active' = TRUE
    /\ nthreads' = nthreads + 1
    /\ pc' = [pc EXCEPT ![nthreads + 1] = "while"]
    /\ args' = [args EXCEPT ![nthreads + 1] = data]
    /\ stopped' = [t \in Threads |->
                     IF Running(t) /\ stopped[t].stop = "midway"
                     THEN [stopped[t] EXCEPT !.restart = TRUE]
                     ELSE stopped[t]]
    /\ UNCHANGED <<current_radar_data, last_volume_key, bucket, key, fetched,
                   iter, emitted, reply,
                   calc, mjpeg>>

\* handle_stop_streaming as it would be if stopping also forgot the last
\* volume, so that a restart broadcasts at once
handle_stop_streaming_forgets ==
    /\ streaming_active' = FALSE
    /\ last_volume_key' = None
    /\ UNCHANGED <<current_radar_data, bucket, nthreads, locals, stopped,
                   emitted, reply,
                   calc, mjpeg>>

\* handle_stop_streaming: clears the flag. stopped.stop records, for every
\* running thread, that the stop arrived and whether in mid-iteration.
handle_stop_streaming ==
    /\ streaming_active' = FALSE
    /\ stopped' = [t \in Threads |->
                     IF ~Running(t) THEN stopped[t]
                     ELSE IF InIteration(t)
                     THEN [stopped[t] EXCEPT !.stop = "midway"]
                     ELSE IF stopped[t].stop = "no"
                     THEN [stopped[t] EXCEPT !.stop = "asleep"]
                     ELSE stopped[t]]
    /\ UNCHANGED <<current_radar_data, last_volume_key, bucket, nthreads,
                   locals, emitted, reply,
                   calc, mjpeg>>

\* handle_update_filters as it would be if it asked the locator for the
\* latest volume instead of using the cached one
handle_update_filters_polls(data) ==
    /\ reply = None
    /\ LET rt == get_radar_data(bucket, "ok")
       IN  reply' =
             IF rt.radar = None
             THEN [handler |-> "update_filters", request |-> data,
                   event |-> "nothing"]
             ELSE IF SweepRaises(data.elevation)
             THEN [handler |-> "update_filters", request |-> data,
                   event |-> "error"]
             ELSE [handler |-> "update_filters", request |-> data,
                   event |-> "radar_data",
                   payload |-> RadarDataPayload(rt, data)]
    /\ UNCHANGED <<globals, bucket, nthreads, locals, stopped, emitted,
                   calc, mjpeg>>

\* handle_update_filters: answers the requesting client alone (emit inside a
\* handler), from the cached volume, and only when one is cached. The one
\* client modelled sends a request once its previous one was answered.
handle_update_filters(data) ==
    /\ reply = None
    /\ reply' =
          IF current_radar_data = None
          THEN [handler |-> "update_filters", request |-> data,
                event |-> "nothing"]
          ELSE IF SweepRaises(data.elevation)
          THEN [handler |-> "update_filters", request |-> data,
                event |-> "error"]
          ELSE [handler |-> "update_filters", request |-> data,
                event |-> "radar_data",
                payload |-> RadarDataPayload(current_radar_data, data)]
    /\ UNCHANGED <<globals, bucket, nthreads, locals, stopped, emitted,
                   calc, mjpeg>>

\* ------------------------------------------------------------- HTTP handlers
\* what a client may put in the query string of /api/radar_data; elev is
\* read with type=float and density with type=int
QueryParams ==
    [elevation : {Num(5)}, threshold : {7}, density : {-2, 0, 1, 2}]

\* Python's len() of a dict: the number of its keys
DictLen(d) == Cardinality(DOMAIN d)

\* radar_data: get_radar_data() first, then the query parameters, then the
\* overlay. overlay_data is the whole result of create_radar_overlay, the
\* dict of points and contours, and point_count is len() of that dict.
\* `io` is not sent: it records that the listing was requested.
radar_data(q) ==
    /\ reply = None
    /\ \E outcome \in IoOutcomes :
          LET rt == get_radar_data(bucket, outcome)
          IN  reply' =
                IF rt.radar = None
                THEN [handler |-> "radar_data", request |-> q, io |-> TRUE,
                      status |-> 500, body |-> [error |-> rt.timestamp]]
                ELSE LET sweep_idx == SweepIdx(rt.radar.angles, q.elevation)
                         overlay_data == create_radar_overlay(rt.radar,
                                 sweep_idx, q.threshold, q.density,
                                 NoGeometryFault)
                     IN  [handler |-> "radar_data", request |-> q,
                          io |-> TRUE, status |-> 200,
                          body |-> [success |-> TRUE,
                                    timestamp |-> rt.timestamp,
                                    elevation |-> rt.radar.angles[sweep_idx],
                                    overlay_data |-> overlay_data,
                                    filter_info |->
                                       [min_dbz |-> q.threshold,
                                        density |-> q.density,
                                        point_count |->
                                           DictLen(overlay_data)]]]
    /\ UNCHANGED <<globals, bucket, nthreads, locals, stopped, emitted,
                   calc, mjpeg>>

\* the client has received the answer; it may send its next request
ReplyDelivered ==
    /\ reply # None
    /\ reply' = None
    /\ UNCHANGED <<globals, bucket, nthreads, locals, stopped, emitted,
                   calc, mjpeg>>

\* ------------------------------------------------------- stream_radar_data
\* iterations begun so far; they are numbered in the order they begin
Begun == CHOOSE n \in 0..MaxIter :
            /\ \A t \in Threads : iter[t] <= n
            /\ n = 0 \/ \E t \in Threads : iter[t] = n

\* line 702: while streaming_active
LoopHead(t) ==
    /\ pc[t] = "while"
    /\ IF streaming_active
       THEN /\ Begun < MaxIter
            /\ iter' = [iter EXCEPT ![t] = Begun + 1]
            /\ pc' = [pc EXCEPT ![t] = "locate"]
       ELSE /\ pc' = [pc EXCEPT ![t] = "done"]
            /\ UNCHANGED iter
    /\ UNCHANGED <<globals, bucket, nthreads, args, key, fetched, stopped,
                   emitted, reply,
                   calc, mjpeg>>

\* line 705: key = latest_volume_key(); the listing may raise
Locate(t) ==
    /\ pc[t] = "locate"
    /\ \E raises \in BOOLEAN :
          IF raises
          THEN pc' = [pc EXCEPT ![t] = "except"] /\ UNCHANGED key
          ELSE /\ key' = [key EXCEPT ![t] = latest_volume_key(bucket)]
               /\ pc' = [pc EXCEPT ![t] = "check"]
    /\ UNCHANGED <<globals, bucket, nthreads, args, fetched, iter, stopped,
                   emitted, reply,
                   calc, mjpeg>>

\* line 706: if key and key != last_volume_key
CheckNew(t) ==
    /\ pc[t] = "check"
    /\ pc' = [pc EXCEPT ![t] =
                 IF key[t] # None /\ key[t] # last_volume_key
                 THEN "set" ELSE "sleep2"]
    /\ UNCHANGED <<globals, bucket, nthreads, args, key, fetched, iter,
                   stopped, emitted, reply,
                   calc, mjpeg>>

\* line 708: last_volume_key = key
SetLastKey(t) ==
    /\ pc[t] = "set"
    /\ last_volume_key' = key[t]
    /\ pc' = [pc EXCEPT ![t] = "fetch"]
    /\ UNCHANGED <<streaming_active, current_radar_data, bucket, nthreads,
                   args, key, fetched, iter, stopped, emitted, reply,
                   calc, mjpeg>>

\* lines 711-712: radar, timestamp = get_radar_data(); if radar
Fetch(t) ==
    /\ pc[t] = "fetch"
    /\ \E outcome \in IoOutcomes :
          LET rt == get_radar_data(bucket, outcome)
          IN  /\ fetched' = [fetched EXCEPT ![t] = rt]
              /\ pc' = [pc EXCEPT ![t] =
                           IF rt.radar # None THEN "store" ELSE "sleep2"]
    /\ UNCHANGED <<globals, bucket, nthreads, args, key, iter, stopped,
                   emitted, reply,
                   calc, mjpeg>>

\* line 713: current_radar_data = (radar, timestamp)
StoreCurrent(t) ==
    /\ pc[t] = "store"
    /\ current_radar_data' = fetched[t]
    /\ pc' = [pc EXCEPT ![t] = "overlay"]
    /\ UNCHANGED <<streaming_active, last_volume_key, bucket, nthreads, args,
                   key, fetched, iter, stopped, emitted, reply,
                   calc, mjpeg>>

\* lines 716-734: choose the sweep, build the overlay, emit radar_data
EmitRadarData(t) ==
    /\ pc[t] = "overlay"
    /\ IF SweepRaises(args[t].elevation)
       THEN pc' = [pc EXCEPT ![t] = "except"] /\ UNCHANGED emitted
       ELSE /\ Broadcast(t, "radar_data", RadarDataPayload(fetched[t], args[t]))
            /\ pc' = [pc EXCEPT ![t] = "sweep"]
    /\ UNCHANGED <<globals, bucket, nthreads, args, key, fetched, iter,
                   stopped, reply,
                   calc, mjpeg>>

\* lines 737-744: emit sweep_update
EmitSweepUpdate(t) ==
    /\ pc[t] = "sweep"
    /\ Broadcast(t, "sweep_update", [scanning |-> TRUE])
    /\ pc' = [pc EXCEPT ![t] = "sleep2"]
    /\ UNCHANGED <<globals, bucket, nthreads, args, key, fetched, iter,
                   stopped, reply,
                   calc, mjpeg>>

\* line 747: time.sleep(2); key, radar and timestamp are dead from here on
\* (the next iteration assigns them before it reads them)
Sleep2(t) ==
    /\ pc[t] = "sleep2"
    /\ pc' = [pc EXCEPT ![t] = "while"]
    /\ key' = [key EXCEPT ![t] = None]
    /\ fetched' = [fetched EXCEPT ![t] = None]
    /\ UNCHANGED <<globals, bucket, nthreads, args, iter, stopped, emitted,
                   reply,
                   calc, mjpeg>>

\* EmitError as it would be with the try around the while loop: the error
\* is broadcast and the thread returns
EmitErrorAndReturn(t) ==
    /\ pc[t] = "except"
    /\ Broadcast(t, "error", [message |-> "exception"])
    /\ pc' = [pc EXCEPT ![t] = "done"]
    /\ UNCHANGED <<globals, bucket, nthreads, args, key, fetched, iter,
                   stopped, reply,
                   calc, mjpeg>>

\* lines 749-751: except Exception: socketio.emit('error', ...)
EmitError(t) ==
    /\ pc[t] = "except"
    /\ Broadcast(t, "error", [message |-> "exception"])
    /\ pc' = [pc EXCEPT ![t] = "sleep5"]
    /\ UNCHANGED <<globals, bucket, nthreads, args, key, fetched, iter,
                   stopped, reply,
                   calc, mjpeg>>

\* line 752: time.sleep(5); key, radar and timestamp are dead from here on
\* (the next iteration assigns them before it reads them)
Sleep5(t) ==
    /\ pc[t] = "sleep5"
    /\ pc' = [pc EXCEPT ![t] = "while"]
    /\ key' = [key EXCEPT ![t] = None]
    /\ fetched' = [fetched EXCEPT ![t] = None]
    /\ UNCHANGED <<globals, bucket, nthreads, args, iter, stopped, emitted,
                   reply,
                   calc, mjpeg>>

\* one step of thread t
stream_radar_data(t) ==
    \/ LoopHead(t)
    \/ Locate(t)
    \/ CheckNew(t)
    \/ SetLastKey(t)
    \/ Fetch(t)
    \/ StoreCurrent(t)
    \/ EmitRadarData(t)
    \/ EmitSweepUpdate(t)
    \/ Sleep2(t)
    \/ EmitError(t)
    \/ Sleep5(t)

\* --------------------------------------------------------------------- Spec
Next ==
    \/ Publish
    \/ \E data \in StreamParams : handle_start_streaming(data)
    \/ handle_stop_streaming
    \/ \E t \in Threads : stream_radar_data(t)

Spec == Init /\ [][Next]_vars

\* The request handlers beside one streaming session: a single
\* start_streaming, its thread, stop_streaming, and the one-shot and
\* update_filters requests.
FirstStart(data) == nthreads = 0 /\ handle_start_streaming(data)

NextRequests ==
    \/ Publish
    \/ \E data \in StreamParams : FirstStart(data)
    \/ handle_stop_streaming
    \/ \E t \in Threads : stream_radar_data(t)
    \/ \E data \in StreamParams : handle_update_filters(data)
    \/ \E q \in QueryParams : radar_data(q)
    \/ ReplyDelivered

SpecRequests == Init /\ [][NextRequests]_vars

\* ------------------------------------------------ radarkmob.py: MJPEG stream
\* frames one generator may yield
MaxFrames == 4

\* everything of app.py
app == <<streaming_active, current_radar_data, last_volume_key, nthreads,
         pc, args, key, fetched, iter, stopped, emitted, reply, calc>>

\* the elev of a /radar_stream query, read with type=float: the default
\* 0.2 or a tilt the client asks for, in tenths of a degree
StreamElevations == { Num(2), Num(15) }

\* lines 185-190: /radar_stream hands a new frame_generator() to the response
radar_stream(elev) ==
    /\ gen_pc = "idle"
    /\ gen_pc' = "locate"
    /\ gen_elev' = elev
    /\ UNCHANGED <<app, bucket, last_key, last_frame, gen_key, yielded>>

\* line 85: key = latest_volume_key(); when the listing raises, the except
\* at 180 logs, the finally sleeps and the loop starts over
GenLocate ==
    /\ gen_pc = "locate"
    /\ \E raises \in BOOLEAN :
          IF raises
          THEN UNCHANGED <<gen_pc, gen_key>>
          ELSE /\ gen_key' = latest_volume_key(bucket)
               /\ gen_pc' = "check"
    /\ UNCHANGED <<app, bucket, gen_elev, last_key, last_frame, yielded>>

\* lines 86-96: no key: sleep and continue; the key of the cached frame:
\* yield last_frame again; else last_key = key and go on to the download.
\* A yielded frame is logged with the key it is served for; key is dead
\* after a yield.
GenCheck ==
    /\ gen_pc = "check"
    /\ IF gen_key = None
       THEN /\ gen_pc' = "locate"
            /\ UNCHANGED <<gen_key, last_key, yielded>>
       ELSE IF gen_key = last_key /\ last_frame # None
       THEN /\ Len(yielded) < MaxFrames
            /\ yielded' = Append(yielded, [frame |-> last_frame,
                                           key |-> gen_key, cached |-> TRUE])
            /\ gen_pc' = "locate"
            /\ gen_key' = None
            /\ UNCHANGED last_key
       ELSE /\ last_key' = gen_key
            /\ gen_pc' = "render"
            /\ UNCHANGED <<gen_key, yielded>>
    /\ UNCHANGED <<app, bucket, gen_elev, last_frame>>

\* lines 98-177: download key, gunzip, decode, choose the sweep, plot; the
\* frame is named by the volume it shows. Any exception (download, decode,
\* plot) is logged at 181; the finally sleeps and the loop starts over.
GenRender ==
    /\ gen_pc = "render"
    /\ \E outcome \in IoOutcomes :
          IF outcome = "ok"
          THEN /\ Len(yielded) < MaxFrames
               /\ LET radar == Decode(gen_key)
                      sweep_idx == SweepIdx(radar.angles, gen_elev)
                  IN  last_frame' =
                         [volume |-> radar.key,
                          elevation |-> radar.angles[sweep_idx],
                          title |-> parse_timestamp_from_key(gen_key)]
               /\ yielded' = Append(yielded, [frame |-> last_frame',
                                              key |-> gen_key,
                                              cached |-> FALSE])
          ELSE UNCHANGED <<last_frame, yielded>>
    /\ gen_pc' = "locate"
    /\ gen_key' = None
    /\ UNCHANGED <<app, bucket, gen_elev, last_key>>

frame_generator == GenLocate \/ GenCheck \/ GenRender

NextMjpeg ==
    \/ Publish
    \/ \E elev \in StreamElevations : radar_stream(elev)
    \/ frame_generator

SpecMjpeg == Init /\ [][NextMjpeg]_vars

\* ------------------------------------------------- the pipeline's functions
\* The functions of the pipeline, each applied once to an input drawn from
\* the sets below: calc holds the function's name and its input, and after
\* the application its result.

\* the cells of a reflectivity array: a weak echo, an echo of 20 dBZ and a
\* masked cell
Cells == { [dbz |-> 5, valid |-> TRUE], [dbz |-> 20, valid |-> TRUE],
           [dbz |-> 30, valid |-> FALSE] }
\* the shapes of the reflectivity array and of the coordinate grids
RefShapes == { <<1, 1>>, <<1, 2>>, <<2, 2>>, <<2, 3>> }
GridShapes == { <<2, 2>>, <<1, 3>>, <<3, 2>> }
Thresholds == { 5, 20, 21 }
MaxStride == 3

\* what the geometry engine may do with the clusters of an overlay
SweepGeometry ==
    { NoGeometryFault, [raises |-> {<<0, 0>>}, multi |-> {}],
      [raises |-> {}, multi |-> {<<1, 0>>}] }

\* one sweep of the given shape, as the only sweep of a volume whose
\* coordinate grids have another shape
OverlayInputs ==
    \E sh \in RefShapes, g \in GridShapes, th \in Thresholds,
       st \in 1..MaxStride, ge \in SweepGeometry :
       \E f \in [0..(sh[1] - 1) -> [0..(sh[2] - 1) -> Cells]] :
          calc = [fn |-> "create_radar_overlay",
                  radar |-> [key |-> None, angles |-> <<5>>,
                             nrays |-> g[1], ngates |-> g[2],
                             field |-> <<f>>],
                  sweep_idx |-> 1, min_dbz_threshold |-> th,
                  sampling_step |-> st, geom |-> ge,
                  done |-> FALSE, out |-> None]

\* samples as lines 197-208 append them, at chosen places: two weak ones
\* near the radar, three of 40 dBZ near the radar, one of 20 dBZ at exactly
\* 1 degree and two of 60 dBZ at 2 degrees
Sample(lat, lon, dbz) ==
    [lat |-> lat, lon |-> lon, value |-> dbz,
     color |-> get_reflectivity_color(dbz)]
SamplePool ==
    << Sample(4, 0, 10), Sample(4, 8, 10), Sample(4, 26, 40),
       Sample(4, 30, 40), Sample(4, 34, 40), Sample(400, 0, 20),
       Sample(800, 0, 60), Sample(800, 12, 60) >>

ContourGeometry ==
    { [raises |-> r, multi |-> m] :
        r \in { {}, {<<0, 0>>}, {<<0, 1>>}, {<<3, 0>>} },
        m \in { {}, {<<0, 0>>} } }

\* some of the samples of the pool, in the order of the pool
ContourInputs ==
    \E c \in SUBSET (1..Len(SamplePool)), ge \in ContourGeometry :
       LET Chosen(x) == x \in c
           pos == SelectSeq([x \in 1..Len(SamplePool) |-> x], Chosen)
       IN  calc = [fn |-> "ContourClusters",
                   all_points |-> [x \in 1..Len(pos) |-> SamplePool[pos[x]]],
                   geom |-> ge, done |-> FALSE, out |-> None]

ColorInputs ==
    \E v \in (-15)..70 :
       calc = [fn |-> "get_reflectivity_color", value |-> v,
               done |-> FALSE, out |-> None]

\* the listings of today's prefix: every key is absent (0) or listed with a
\* LastModified; uploads need not arrive in the order of the acquisitions
ListingKeys == [ts : 1..MaxVolumes, suffix : {"_V06", "_V06_MDM"}]
ListingInputs ==
    \E f \in [ListingKeys -> 0..MaxVolumes] :
       calc = [fn |-> "latest_volume_key",
               listing |-> { [Key |-> k, LastModified |-> f[k]] :
                               k \in { k \in ListingKeys : f[k] > 0 } },
               done |-> FALSE, out |-> None]

InitPipeline ==
    /\ OverlayInputs \/ ContourInputs \/ ColorInputs \/ ListingInputs
    /\ streaming_active = FALSE
    /\ current_radar_data = None
    /\ last_volume_key = None
    /\ bucket = {}
    /\ nthreads = 0
    /\ pc = [t \in Threads |-> "unborn"]
    /\ args = [t \in Threads |-> None]
    /\ key = [t \in Threads |-> None]
    /\ fetched = [t \in Threads |-> None]
    /\ iter = [t \in Threads |-> 0]
    /\ stopped = [t \in Threads |-> [stop |-> "no", restart |-> FALSE]]
    /\ emitted = <<>>
    /\ reply = None
    /\ gen_pc = "idle"
    /\ gen_elev = None
    /\ last_key = None
    /\ last_frame = None
    /\ gen_key = None
    /\ yielded = <<>>

program == <<streaming_active, current_radar_data, last_volume_key, bucket,
             nthreads, pc, args, key, fetched, iter, stopped, emitted, reply,
             gen_pc, gen_elev, last_key, last_frame, gen_key, yielded>>

ApplyOverlay ==
    /\ calc.fn = "create_radar_overlay" /\ ~calc.done
    /\ calc' = [calc EXCEPT !.done = TRUE, !.out =
                   create_radar_overlay(calc.radar, calc.sweep_idx,
                       calc.min_dbz_threshold, calc.sampling_step, calc.geom)]
    /\ UNCHANGED program

\* the band loop alone: levels keeps what every pass computed
ApplyContours ==
    /\ calc.fn = "ContourClusters" /\ ~calc.done
    /\ calc' = [calc EXCEPT !.done = TRUE, !.out =
                   [levels |-> [idx \in 0..5 |->
                                  LevelPass(calc.all_points, idx)],
                    contours |-> ContourClusters(calc.all_points, 5,
                                                 calc.geom)]]
    /\ UNCHANGED program

ApplyColor ==
    /\ calc.fn = "get_reflectivity_color" /\ ~calc.done
    /\ calc' = [calc EXCEPT !.done = TRUE, !.out = get_reflectivity_color(calc.value)]
    /\ UNCHANGED program

ApplyLocator ==
    /\ calc.fn = "latest_volume_key" /\ ~calc.done
    /\ calc' = [calc EXCEPT !.done = TRUE, !.out = latest_volume_key(calc.listing)]
    /\ UNCHANGED program

NextPipeline == ApplyOverlay \/ ApplyContours \/ ApplyColor \/ ApplyLocator

SpecPipeline == InitPipeline /\ [][NextPipeline]_vars

\* ================================================================== claims
\* the radar_data messages of the broadcast log, as positions in it
DataAt == { i \in DOMAIN emitted : emitted[i].event = "radar_data" }

\* C1: at any time at most one stream_radar_data thread is running, so a
\* start_streaming that arrives while one runs never adds a second poller.
C1_AtMostOnePoller ==
    Cardinality({ t \in Threads : Running(t) }) <= 1

\* C2: a volume identifier is the subject of at most one radar_data
\* broadcast, over any sequence of start/stop events and iterations.
C2_StreamingDedup ==
    \A i, j \in DataAt :
        emitted[i].payload.volume = emitted[j].payload.volume => i = j

\* C3: once a thread was stopped in mid-iteration and a new start_streaming
\* followed, no radar_data it broadcasts is computed with parameters other
\* than those of the latest start_streaming.
C3_NoOldParamsAfterRestart ==
    \A i \in DataAt :
        emitted[i].signal.restart =>
            args[emitted[i].thread] = args[emitted[i].starts]

\* C4: a thread that had an iteration in flight when stop_streaming arrived
\* begins no further iteration: from the loop head it never goes on to the
\* locator.
C4_StoppedTaskStartsNoIteration ==
    [][\A t \in Threads :
          (stopped[t].stop = "midway" /\ pc[t] = "while")
              => pc'[t] # "locate"]_vars

\* C5: in the broadcast log every sweep_update directly follows the
\* radar_data of the same iteration, and every radar_data that is not the
\* last message is directly followed by the sweep_update of its iteration.
C5_DataThenSweepNotInterleaved ==
    \A i \in DOMAIN emitted :
        /\ emitted[i].event = "sweep_update" =>
              /\ i > 1
              /\ emitted[i - 1].event = "radar_data"
              /\ emitted[i - 1].iter = emitted[i].iter
        /\ (emitted[i].event = "radar_data" /\ i < Len(emitted)) =>
              /\ emitted[i + 1].event = "sweep_update"
              /\ emitted[i + 1].iter = emitted[i].iter

\* C6: a step that is not a step of a polling thread (no started thread moves:
\* a start, a stop, an update_filters, a one-shot query, an upload) leaves
\* last_volume_key and current_radar_data as they were.
C6_OnlyPollerWrites ==
    [][(\A t \in Threads : pc[t] = "unborn" \/ pc'[t] = pc[t])
          => /\ last_volume_key' = last_volume_key
             /\ current_radar_data' = current_radar_data]_vars

\* an update_filters was answered from the cached volume, and the stream
\* has been stopped, while both globals hold a volume
C6_Witness ==
    /\ reply # None
    /\ reply.handler = "update_filters"
    /\ reply.event = "radar_data"
    /\ ~streaming_active
    /\ last_volume_key # None
    /\ current_radar_data # None

\* no polling thread is between its locator check and the end of its work
Quiescent == \A t \in Threads : ~InIteration(t)

\* the volume of the latest radar_data broadcast, None before the first
LastBroadcastVolume ==
    IF DataAt = {} THEN None
    ELSE emitted[CHOOSE i \in DataAt : \A j \in DataAt : j <= i].payload.volume

\* C7: between iterations the recorded last_volume_key is the identifier of
\* the last volume actually broadcast (so a volume that differs from the
\* last broadcast one is always run and broadcast).
C7_LastKeyIsLastBroadcast ==
    Quiescent => last_volume_key = LastBroadcastVolume

\* C8: an exception that reaches the loop's guard is broadcast as an 'error'
\* message and followed by the backoff sleep and the loop head; a thread
\* returns only from the loop head with streaming_active false, and from the
\* loop head with streaming_active true it goes on to the locator.
C8_GuardKeepsLooping ==
    [][\A t \in Threads :
          /\ (pc[t] = "except" /\ pc'[t] # pc[t]) =>
                /\ pc'[t] = "sleep5"
                /\ Len(emitted') = Len(emitted) + 1
                /\ SubSeq(emitted', 1, Len(emitted)) = emitted
                /\ emitted'[Len(emitted')].event = "error"
                /\ emitted'[Len(emitted')].thread = t
          /\ (pc[t] = "sleep5" /\ pc'[t] # pc[t]) => pc'[t] = "while"
          /\ (pc[t] # "done" /\ pc'[t] = "done") =>
                pc[t] = "while" /\ ~streaming_active
          /\ (pc[t] = "while" /\ streaming_active /\ pc'[t] # pc[t]) =>
                pc'[t] = "locate"]_vars

\* a thread whose earlier iteration raised and broadcast an error is at the
\* locator again
C8_Witness ==
    \E t \in Threads :
        /\ pc[t] = "locate"
        /\ \E i \in DOMAIN emitted :
              /\ emitted[i].event = "error"
              /\ emitted[i].thread = t
              /\ emitted[i].iter < iter[t]

\* C9: when the pipeline run of an iteration failed (get_radar_data gave no
\* volume), the thread has broadcast an error message in that iteration by
\* the time it sleeps.
C9_PipelineFailureReported ==
    \A t \in Threads :
        (pc[t] = "sleep2" /\ fetched[t] # None /\ fetched[t].radar = None) =>
            \E i \in DOMAIN emitted :
                /\ emitted[i].event = "error"
                /\ emitted[i].iter = iter[t]

\* C10: a one-shot query with a stride of zero or less is answered with an
\* error, and no listing, download or decode was attempted for it.
C10_InvalidParameterRejected ==
    (reply # None /\ reply.handler = "radar_data"
                  /\ reply.request.density <= 0) =>
        (reply.status # 200 /\ ~reply.io)

\* ---------------------------------------------------------------------- C11
\* the step in which handle_update_filters answers a request
UpdateFiltersAnswers ==
    reply = None /\ reply' # None /\ reply'.handler = "update_filters"

\* C11 as stated: whenever a decoded volume is cached, an update_filters
\* request is answered with a radar_data message.
C11_CachedAlwaysRadarData ==
    [][ (UpdateFiltersAnswers /\ current_radar_data # None)
          => reply'.event = "radar_data" ]_vars

\* C11, amended: with no volume cached an update_filters request emits
\* nothing; with a volume cached and a numeric elevation it is answered at
\* once with a radar_data message computed from the cached volume (whatever
\* the bucket holds by then) for the nearest tilt, the threshold and the
\* density of the request itself, and nothing else changes; with a volume
\* cached and an elevation that is not a number it is answered with an
\* error message.
C11_UpdateFiltersFromCache ==
    [][ UpdateFiltersAnswers =>
          /\ UNCHANGED <<globals, bucket, nthreads, locals, stopped, emitted>>
          /\ current_radar_data = None => reply'.event = "nothing"
          /\ (current_radar_data # None /\ reply'.request.elevation = None)
                => reply'.event = "error"
          /\ (current_radar_data # None /\ reply'.request.elevation # None)
                => /\ reply'.event = "radar_data"
                   /\ LET m == reply'.payload
                           q == reply'.request
                           angles == current_radar_data.radar.angles
                       IN  /\ m.volume = current_radar_data.radar.key
                           /\ m.timestamp = current_radar_data.timestamp
                           /\ m.filter_info.min_dbz = q.threshold
                           /\ m.filter_info.density = q.density
                           /\ \E i \in 1..Len(angles) :
                                 /\ m.elevation = angles[i]
                                 /\ \A j \in 1..Len(angles) :
                                       Abs(angles[i] - q.elevation.num)
                                         <= Abs(angles[j] - q.elevation.num)
                           /\ m.filter_info.point_count = Len(m.overlay_data)
                           /\ \A x \in 1..Len(m.overlay_data) :
                                 m.overlay_data[x].value >= q.threshold ]_vars

\* an update_filters request was answered from the cached volume while the
\* locator would already name a newer one, with parameters the poller was
\* not started with
C11_Witness ==
    /\ reply # None
    /\ reply.handler = "update_filters"
    /\ reply.event = "radar_data"
    /\ reply.payload.volume # latest_volume_key(bucket)
    /\ reply.request # args[1]
    /\ Len(reply.payload.overlay_data) > 0

\* ---------------------------------------------------------------------- C12
\* the cells of the filtered sweep that the claim says are sampled: on the
\* stride in both directions, inside the reflectivity array and inside the
\* coordinate grids, unmasked, at or above the threshold
C12_Expected ==
    LET ref_data == calc.radar.field[calc.sweep_idx]
    IN  { c \in (DOMAIN ref_data) \X (DOMAIN ref_data[0]) :
            /\ c[1] % calc.sampling_step = 0
            /\ c[2] % calc.sampling_step = 0
            /\ c[1] < calc.radar.nrays
            /\ c[2] < calc.radar.ngates
            /\ ref_data[c[1]][c[2]].valid
            /\ ref_data[c[1]][c[2]].dbz >= calc.min_dbz_threshold }

\* C12: for every sweep, threshold and stride >= 1 the point list holds
\* exactly one sample for each cell on the stride, inside the common
\* clipped shape, unmasked and at or above the threshold, with that
\* cell's dBZ; it holds no other sample.
C12_PointsAreTheQualifyingCells ==
    (calc.fn = "create_radar_overlay" /\ calc.done /\ calc.sampling_step >= 1)
      => LET pts == calc.out.points
             ref_data == calc.radar.field[calc.sweep_idx]
         IN  /\ { <<pts[x].ray, pts[x].gate>> : x \in 1..Len(pts) }
                   = C12_Expected
             /\ Len(pts) = Cardinality(C12_Expected)
             /\ \A x \in 1..Len(pts) :
                   /\ pts[x].value = ref_data[pts[x].ray][pts[x].gate].dbz
                   /\ pts[x].value >= calc.min_dbz_threshold

\* a sweep wider than the coordinate grids, filtered with a stride of 2:
\* a sample was kept, and a cell that is unmasked and strong enough was
\* left out
C12_Witness ==
    /\ calc.fn = "create_radar_overlay" /\ calc.done
    /\ calc.sampling_step = 2
    /\ Cardinality(DOMAIN calc.radar.field[1][0]) > calc.radar.ngates
    /\ Len(calc.out.points) > 0
    /\ \E i \in DOMAIN calc.radar.field[1] :
          \E j \in DOMAIN calc.radar.field[1][0] :
             /\ calc.radar.field[1][i][j].valid
             /\ calc.radar.field[1][i][j].dbz >= calc.min_dbz_threshold
             /\ \A x \in 1..Len(calc.out.points) :
                   <<calc.out.points[x].ray, calc.out.points[x].gate>>
                     # <<i, j>>
    /\ \E i \in DOMAIN calc.radar.field[1] :
          \E j \in DOMAIN calc.radar.field[1][0] :
             /\ calc.radar.field[1][i][j].valid
             /\ calc.radar.field[1][i][j].dbz < calc.min_dbz_threshold

\* ---------------------------------------------------------------------- C13
\* the boundaries of the colour buckets, in dBZ
C13_Boundaries == {-10, 0, 5, 10, 15, 20, 25, 30, 35, 40, 45, 50, 55, 60, 65}
\* the bucket of a value: the number of boundaries it has reached
C13_Bucket(v) == Cardinality({ b \in C13_Boundaries : b <= v })

\* C13: get_reflectivity_color gives two values the same colour exactly
\* when they have reached the same boundaries among -10, 0, 5, ..., 65, so
\* there are sixteen buckets, a value on a boundary is in the bucket above
\* it, everything below -10 is in the first and everything from 65 in the
\* last.
C13_ColorIsTheBucket ==
    (calc.fn = "get_reflectivity_color" /\ calc.done)
      => \A w \in (-15)..70 :
            (get_reflectivity_color(w) = calc.out)
              <=> (C13_Bucket(w) = C13_Bucket(calc.value))

\* the boundary value 10 got the colour of the bucket from 10 to 15
C13_Witness ==
    /\ calc.fn = "get_reflectivity_color" /\ calc.done
    /\ calc.value = 10
    /\ calc.out = "#0300F4"

\* ---------------------------------------------------------------------- C14
\* the candidate set of band idx, as the pass computed it
C14_Candidates(idx) ==
    { calc.out.levels[idx].level_points[x] :
        x \in 1..Len(calc.out.levels[idx].level_points) }

\* C14: every filtered sample whose dBZ reaches the minimum of a band is a
\* candidate of that band, whatever higher minimum it also reaches, and the
\* candidates of a band are candidates of every band with a lower minimum.
C14_BandsAreCumulative ==
    (calc.fn = "ContourClusters" /\ calc.done)
      => /\ \A idx \in 0..5 : \A x \in 1..Len(calc.all_points) :
               calc.all_points[x].value >= dbz_levels[idx].min
                 => calc.all_points[x] \in C14_Candidates(idx)
         /\ \A lo \in 0..5 : \A hi \in 0..5 :
               dbz_levels[lo].min < dbz_levels[hi].min
                 => C14_Candidates(hi) \subseteq C14_Candidates(lo)

\* a sample of 40 dBZ is a candidate of the band from 7 and of the band
\* from 35, and the band from 7 has a candidate the band from 35 has not
C14_Witness ==
    /\ calc.fn = "ContourClusters" /\ calc.done
    /\ \E p \in C14_Candidates(3) : p.value = 40 /\ p \in C14_Candidates(0)
    /\ C14_Candidates(0) # C14_Candidates(3)

\* ---------------------------------------------------------------------- C15
\* C15: a band with fewer than 3 candidates contributes no polygon, and a
\* sweep in which fewer than 3 filtered samples reach the lowest minimum of
\* the bands gets an empty polygon list (its point list need not be empty).
C15_SmallBandsSkipped ==
    /\ (calc.fn = "ContourClusters" /\ calc.done)
         => \A idx \in 0..5 :
               Cardinality({ x \in 1..Len(calc.all_points) :
                   calc.all_points[x].value >= dbz_levels[idx].min }) < 3
                 => \A x \in 1..Len(calc.out.contours) :
                       calc.out.contours[x].cluster_id.level # idx
    /\ (calc.fn = "create_radar_overlay" /\ calc.done)
         => (Cardinality({ x \in 1..Len(calc.out.points) :
                 calc.out.points[x].value >= 7 }) < 3
               => calc.out.contours = <<>>)

\* a sweep with three samples, two of them of 20 dBZ in neighbouring gates
\* of one ray: no polygon, and a point list that is not empty
C15_Witness ==
    /\ calc.fn = "create_radar_overlay" /\ calc.done
    /\ calc.geom = NoGeometryFault
    /\ Len(calc.out.points) = 3
    /\ calc.out.contours = <<>>
    /\ \E x \in 1..3 : \E y \in 1..3 :
          /\ calc.out.points[x].value = 20 /\ calc.out.points[y].value = 20
          /\ calc.out.points[x].ray = calc.out.points[y].ray
          /\ calc.out.points[x].gate + 1 = calc.out.points[y].gate

\* ---------------------------------------------------------------------- C16
\* the cluster a contour belongs to was not one the geometry engine failed on
C16_Built(c) ==
    <<c.cluster_id.level, c.cluster_id.cluster>> \notin calc.geom.raises

\* C16: the overlay built while the geometry engine fails on some clusters
\* has the full point list and, in the same order, every polygon of every
\* other cluster that the overlay built without those failures has.
C16_FailureSkipsOneCluster ==
    /\ (calc.fn = "ContourClusters" /\ calc.done)
         => calc.out.contours
              = SelectSeq(ContourClusters(calc.all_points, 5,
                              [raises |-> {}, multi |-> calc.geom.multi]),
                          C16_Built)
    /\ (calc.fn = "create_radar_overlay" /\ calc.done)
         => LET whole == create_radar_overlay(calc.radar, calc.sweep_idx,
                             calc.min_dbz_threshold, calc.sampling_step,
                             [raises |-> {}, multi |-> calc.geom.multi])
            IN  /\ calc.out.points = whole.points
                /\ calc.out.contours = SelectSeq(whole.contours, C16_Built)

\* the geometry engine failed on the first cluster of the lowest band, which
\* had two samples or more: the second cluster of that band and a cluster of
\* another band still have their polygons
C16_Witness ==
    /\ calc.fn = "ContourClusters" /\ calc.done
    /\ calc.geom.raises = {<<0, 0>>}
    /\ ~calc.out.levels[0].skipped
    /\ Cardinality({ x \in 1..Len(calc.out.levels[0].labels) :
                       calc.out.levels[0].labels[x] = 0 }) >= 2
    /\ \E x \in 1..Len(calc.out.contours) :
          /\ calc.out.contours[x].cluster_id.level = 0
          /\ calc.out.contours[x].cluster_id.cluster = 1
    /\ \E x \in 1..Len(calc.out.contours) :
          calc.out.contours[x].cluster_id.level = 3
    /\ \A x \in 1..Len(calc.out.contours) :
          calc.out.contours[x].cluster_id.level = 0
            => calc.out.contours[x].cluster_id.cluster # 0

\* ---------------------------------------------------------------------- C17
\* C17: latest_volume_key returns None exactly when no listed key ends with
\* _V06, and otherwise the listed _V06 key with the greatest acquisition
\* time embedded in it.
C17_LatestByAcquisitionTime ==
    (calc.fn = "latest_volume_key" /\ calc.done)
      => LET finals == { o \in calc.listing : o.Key.suffix = "_V06" }
         IN  IF finals = {} THEN calc.out = None
             ELSE /\ \E o \in finals : o.Key = calc.out
                  /\ \A o \in finals : o.Key.ts <= calc.out.ts

\* ---------------------------------------------------------------------- C18
\* twice the largest distance factor among the samples pts: 4 with one at 2
\* degrees (800 units) or more, else 3 with one at 1 degree or more, else 2
C18_TwiceLargestFactor(pts) ==
    LET D2(p) == p.lat * p.lat + p.lon * p.lon
    IN  IF \E x \in 1..Len(pts) : D2(pts[x]) >= 800 * 800 THEN 4
        ELSE IF \E x \in 1..Len(pts) : D2(pts[x]) >= 400 * 400 THEN 3
        ELSE 2

\* C18: the eps of every band pass is the band's base eps times the largest
\* distance factor among the candidates of the band.
C18_EpsIsBaseTimesLargestFactor ==
    (calc.fn = "ContourClusters" /\ calc.done)
      => \A idx \in 0..5 :
            ~calc.out.levels[idx].skipped
              => 2 * calc.out.levels[idx].eps
                   = base_eps(dbz_levels[idx])
                       * C18_TwiceLargestFactor(calc.out.levels[idx].level_points)

\* a pass over candidates near the radar and one candidate at 2 degrees: it
\* used twice the base eps, and two near samples 18 units apart, farther
\* than the base eps of 10, are in one cluster
C18_Witness ==
    /\ calc.fn = "ContourClusters" /\ calc.done
    /\ ~calc.out.levels[0].skipped
    /\ calc.out.levels[0].eps = 20
    /\ LET pts == calc.out.levels[0].level_points
           labels == calc.out.levels[0].labels
       IN  \E x \in 1..Len(pts) : \E y \in 1..Len(pts) :
              /\ pts[x].lat = 4 /\ pts[x].lon = 8
              /\ pts[y].lat = 4 /\ pts[y].lon = 26
              /\ labels[x] = labels[y] /\ labels[x] # -1

\* ---------------------------------------------------------------------- C19
\* C19: in an iteration that has downloaded and decoded a volume, and goes on
\* to cache and broadcast it, that volume is the one whose identifier the
\* iteration compared with last_volume_key and stored into it.
C19_BroadcastIsTheComparedVolume ==
    \A t \in Threads :
        pc[t] \in {"store", "overlay", "sweep"}
          => fetched[t].radar.key = key[t]

\* ---------------------------------------------------------------------- C20
\* C20: a frame that frame_generator yields from its cache, because the
\* locator's key equals last_key, shows the volume of that key.
C20_CachedFrameIsOfLastKey ==
    \A i \in DOMAIN yielded :
        yielded[i].cached => yielded[i].frame.volume = yielded[i].key

\* ---------------------------------------------------------------------- C21
\* C21: in every radar_data broadcast, in every radar_data answer to an
\* update_filters request and in every successful answer of /api/radar_data,
\* filter_info.point_count is the number of samples in the point list of
\* the overlay that the message carries.
C21_PointCountIsNumberOfSamples ==
    /\ \A i \in DataAt :
          emitted[i].payload.filter_info.point_count
            = Len(emitted[i].payload.overlay_data)
    /\ (reply # None /\ reply.handler = "update_filters"
           /\ reply.event = "radar_data")
         => reply.payload.filter_info.point_count
              = Len(reply.payload.overlay_data)
    /\ (reply # None /\ reply.handler = "radar_data" /\ reply.status = 200)
         => reply.body.filter_info.point_count
              = Len(reply.body.overlay_data.points)

====
